---- MODULE Spec2Model ----
(***************************************************************************)
(* Tri-state truth propagation over a boolean tree of indicator nodes      *)
(* (indicators.go).  Fire and ResolveNot both run setTruth, which resets   *)
(* the node lazily for a new event, evaluates its operator against the     *)
(* truth of the child passed in, emits the node's Indicator when the node  *)
(* becomes true and recurses into the node's Parents.                      *)
(*                                                                         *)
(* Strings that the code splits (Pattern.Type) are sequences of segments   *)
(* in which "." is the separator, so "src.ipv4" is <<"src", ".", "ipv4">>. *)
(***************************************************************************)
EXTENDS Integers, Sequences, FiniteSets, TLC

\* ------------------------------------------------------------------ bounds

\* Total number of Fire/ResolveNot calls made in one behaviour.
MaxCalls == 5

\* Number of events processed one after another (event IDs 1..MaxEvents).
MaxEvents == 3

\* ------------------------------------------------------------- truth values

truthUnknown == 0
truthTrue == 1
truthFalse == 2

\* ------------------------------------------------------ node definitions

NilPattern == [nil |-> TRUE, Type |-> <<>>, Value |-> ""]

NilIndicator == [nil |-> TRUE, Id |-> "", Type |-> <<>>, Value |-> ""]

\* Pattern{Type: t, Value: v}
Pat(t, v) == [nil |-> FALSE, Type |-> t, Value |-> v]

\* dt.Indicator{Id: id, Type: t, Value: v}
Ind(id, t, v) == [nil |-> FALSE, Id |-> id, Type |-> t, Value |-> v]

\* An IndicatorNode as the loader leaves it: the fields of the definition
\* file plus the Parents links made at load time.
IndicatorNode(op, children, parents, ind, sibs, pat, orig) ==
    [Operator |-> op, Children |-> children, Parents |-> parents,
     Indicator |-> ind, SiblingNots |-> sibs, Pattern |-> pat,
     UseOriginalIndicatorValue |-> orig]

Leaf(pat, parents, sibs, ind) ==
    IndicatorNode("", <<>>, parents, ind, sibs, pat, FALSE)

Op(op, children, parents, sibs, ind) ==
    IndicatorNode(op, children, parents, ind, sibs, NilPattern, FALSE)

TorIP == "103.199.16.66"

\* The tree of the collapsible-tree example: root AND carrying the
\* "TOR exit node" indicator over OR(AND(src.ipv4, ref A), AND(dest.ipv4,
\* ref B)) and NOT(ref C).  The three referenced nodes are leaves here.
\* The OR is the sibling of the NOT under the root.
treeData ==
    [root |-> Op("AND", <<"or", "not">>, <<>>, <<>>,
                 Ind("1ac05c71", <<"ipv4">>, TorIP)),
     or   |-> Op("OR", <<"and1", "and2">>, <<"root">>, <<"not">>, NilIndicator),
     and1 |-> Op("AND", <<"src", "A">>, <<"or">>, <<>>, NilIndicator),
     and2 |-> Op("AND", <<"dst", "B">>, <<"or">>, <<>>, NilIndicator),
     not  |-> Op("NOT", <<"C">>, <<"root">>, <<>>, NilIndicator),
     src  |-> Leaf(Pat(<<"src", ".", "ipv4">>, TorIP), <<"and1">>, <<>>, NilIndicator),
     dst  |-> Leaf(Pat(<<"dest", ".", "ipv4">>, TorIP), <<"and2">>, <<>>, NilIndicator),
     A    |-> Leaf(Pat(<<"src", ".", "port">>, "9001"), <<"and1">>, <<>>, NilIndicator),
     B    |-> Leaf(Pat(<<"dest", ".", "port">>, "9001"), <<"and2">>, <<>>, NilIndicator),
     C    |-> Leaf(Pat(<<"country">>, "GB"), <<"not">>, <<>>, NilIndicator)]

\* A leaf s shared by two OR parents p1 and p2 (a diamond under top).  The
\* NOT n is the first child of top and also a child of p1.  p2 reports its
\* template's own values.
sharedData ==
    [top |-> Op("AND", <<"n", "p1", "p2">>, <<>>, <<>>,
                Ind("top", <<"hostname">>, "template")),
     p1  |-> Op("OR", <<"s", "n">>, <<"top">>, <<"n">>,
                Ind("p1", <<"ipv4">>, "0.0.0.0")),
     p2  |-> [Op("OR", <<"s", "c">>, <<"top">>, <<"n">>,
                 Ind("p2", <<"ipv4">>, "0.0.0.0"))
                EXCEPT !.UseOriginalIndicatorValue = TRUE],
     n   |-> Op("NOT", <<"d">>, <<"top", "p1">>, <<>>, NilIndicator),
     s   |-> Leaf(Pat(<<"src", ".", "ipv4">>, "10.0.0.1"), <<"p1", "p2">>, <<>>,
                  Ind("s", <<"ipv4">>, "10.0.0.1")),
     c   |-> Leaf(Pat(<<"port">>, "443"), <<"p2">>, <<>>, NilIndicator),
     d   |-> Leaf(Pat(<<"country">>, "GB"), <<"n">>, <<>>, NilIndicator)]

\* A negation over a conjunction that itself holds a negation:
\* top AND(y, outer NOT(and1 AND(x, inner NOT(c)))).
nestedData ==
    [top   |-> Op("AND", <<"y", "outer">>, <<>>, <<>>,
                  Ind("top", <<"ipv4">>, "0.0.0.0")),
     outer |-> Op("NOT", <<"and1">>, <<"top">>, <<>>, NilIndicator),
     and1  |-> Op("AND", <<"x", "inner">>, <<"outer">>, <<>>, NilIndicator),
     inner |-> Op("NOT", <<"c">>, <<"and1">>, <<>>, NilIndicator),
     y     |-> Leaf(Pat(<<"src", ".", "ipv4">>, "10.0.0.2"), <<"top">>, <<"outer">>,
                    Ind("y", <<"ipv4">>, "0.0.0.0")),
     x     |-> Leaf(Pat(<<"dest", ".", "ipv4">>, "10.0.0.3"), <<"and1">>, <<"inner">>,
                    NilIndicator),
     c     |-> Leaf(Pat(<<"country">>, "GB"), <<"inner">>, <<>>, NilIndicator)]

\* Definitions with schema anomalies: u has an operator that is none of
\* OR, AND, NOT; the pattern type of m has three parts.  Leaf k, whose type
\* has one part, is a child of both u and the OR o.
oddData ==
    [o |-> Op("OR", <<"u", "m", "k">>, <<>>, <<>>, Ind("o", <<"ipv4">>, "0.0.0.0")),
     u |-> Op("XOR", <<"k">>, <<"o">>, <<>>, Ind("u", <<"ipv4">>, "0.0.0.0")),
     k |-> Leaf(Pat(<<"hostname">>, "example.org"), <<"u", "o">>, <<>>,
                Ind("k", <<"dns">>, "template")),
     m |-> Leaf(Pat(<<"src", ".", "ipv4", ".", "net">>, "10.0.0.0"), <<"o">>, <<>>,
                Ind("m", <<"cidr">>, "template"))]

\* A definition with an operator and a pattern but no children, under an
\* OR with a second, ordinary leaf.
childlessData ==
    [g |-> Op("OR", <<"e", "h">>, <<>>, <<>>, Ind("g", <<"ipv4">>, "0.0.0.0")),
     e |-> IndicatorNode("AND", <<>>, <<"g">>, NilIndicator, <<>>,
                         Pat(<<"src", ".", "ipv4">>, "10.0.0.4"), FALSE),
     h |-> Leaf(Pat(<<"dest", ".", "ipv4">>, "10.0.0.5"), <<"g">>, <<>>, NilIndicator)]

Definitions ==
    [tor |-> treeData, shared |-> sharedData, nested |-> nestedData, odd |-> oddData,
     childless |-> childlessData]

\* The loaded definitions in which every node with an operator has children.
WithChildren ==
    {d \in DOMAIN Definitions :
        \A m \in DOMAIN Definitions[d] :
            Definitions[d][m].Operator # "" => Definitions[d][m].Children # <<>>}

\* ------------------------------------------------------------------- state

VARIABLES
    graph,          \* which set of definitions was loaded
    truth,          \* node.truth
    eventID,        \* node.eventID
    Pattern,        \* node.Pattern
    Indicator,      \* *node.Indicator (Type and Value are written on emission)
    panicked,       \* a run-time panic ended the process
    ev,             \* driver: the event being processed
    phase,          \* driver: "match" while leaves fire, "resolve" afterwards
    calls,          \* driver: Fire/ResolveNot calls made so far
    fired,          \* driver: leaves fired for ev
    resolvedNots,   \* driver: NOT nodes ResolveNot was called on for ev
    discovered,     \* driver: sibling negations returned so far for ev
    emitted,        \* history: times each node's indicator was returned for ev
    lastCall,       \* history: the last call made
    indicators,     \* first return value of the last call (nodes whose Indicator it holds)
    discoveredNots, \* second return value of the last call
    touches         \* history: the setTruth invocations of the last call, in order

vars == <<graph, truth, eventID, Pattern, Indicator, panicked, ev, phase, calls,
          fired, resolvedNots, discovered, emitted, lastCall, indicators,
          discoveredNots, touches>>

Nodes == DOMAIN Definitions[graph]

Operator(node) == Definitions[graph][node].Operator

Children(node) == Definitions[graph][node].Children

Parents(node) == Definitions[graph][node].Parents

SiblingNots(node) == Definitions[graph][node].SiblingNots

UseOriginalIndicatorValue(node) == Definitions[graph][node].UseOriginalIndicatorValue

\* The sentinel nodes passed in by Fire and ResolveNot.
trueNode == "trueNode"

falseNode == "falseNode"

\* childNode.truth
childTruth(s, childNode) ==
    IF childNode = trueNode THEN truthTrue
    ELSE IF childNode = falseNode THEN truthFalse
    ELSE s.truth[childNode]

\* childNode.Pattern
childPattern(s, childNode) ==
    IF childNode \in {trueNode, falseNode} THEN NilPattern
    ELSE s.Pattern[childNode]

\* The mutable fields of all nodes, as one value threaded through setTruth.
State ==
    [truth |-> truth, eventID |-> eventID, Pattern |-> Pattern,
     Indicator |-> Indicator, panicked |-> panicked]

\* ------------------------------------------------------------- setTruth

\* strings.Split(str, sep) for a one-segment separator.
RECURSIVE Split(_, _)
Split(str, sep) ==
    IF \A i \in 1..Len(str) : str[i] # sep
    THEN <<str>>
    ELSE LET i == CHOOSE k \in 1..Len(str) :
                      str[k] = sep /\ \A j \in 1..(k - 1) : str[j] # sep
         IN  <<SubSeq(str, 1, i - 1)>> \o Split(SubSeq(str, i + 1, Len(str)), sep)

\* Faulty variant: sibling negations are collected only from a node whose
\* truth is still unknown, that is on resolution instead of on every touch.
collectSiblingNots_whenUnknown(s, node) ==
    IF s.truth[node] = truthUnknown THEN SiblingNots(node) ELSE <<>>

\* discoveredNots = append(discoveredNots, node.SiblingNots...): the first
\* statement of setTruth, whatever state s the node is found in.
collectSiblingNots(s, node) == SiblingNots(node)

\* Faulty variant: the reset clears the Pattern of every node, leaves included.
resetNode_clearsLeafPattern(s, node, evID) ==
    IF s.eventID[node] # evID
    THEN [s EXCEPT !.truth[node] = truthUnknown,
                   !.eventID[node] = evID,
                   !.Pattern[node] = NilPattern]
    ELSE s

\* Faulty variant: the reset leaves the Pattern of an operator node in place.
resetNode_keepsPattern(s, node, evID) ==
    IF s.eventID[node] # evID
    THEN [s EXCEPT !.truth[node] = truthUnknown,
                   !.eventID[node] = evID]
    ELSE s

\* Faulty variant: the reset records the new event but keeps the old truth.
resetNode_keepsTruth(s, node, evID) ==
    IF s.eventID[node] # evID
    THEN [s EXCEPT !.eventID[node] = evID,
                   !.Pattern[node] = IF Operator(node) # "" THEN NilPattern ELSE @]
    ELSE s

\* If the node's event ID does not match, its state is old: reset it.
resetNode(s, node, evID) ==
    IF s.eventID[node] # evID
    THEN [s EXCEPT !.truth[node] = truthUnknown,
                   !.eventID[node] = evID,
                   !.Pattern[node] = IF Operator(node) # "" THEN NilPattern ELSE @]
    ELSE s

\* Faulty variant: the check that the truth is already known is missing.
truthKnown_never(s, node) == FALSE

\* "If truth of this node already known then nothing to do"
truthKnown(s, node) == s.truth[node] # truthUnknown

\* What an operator case decides: the truth to set (truthUnknown for none),
\* the node's Pattern afterwards, and whether the case panicked.
Decision(setNodeTo, pat, panic) ==
    [setNodeTo |-> setNodeTo, Pattern |-> pat, panicked |-> panic]

\* Faulty variant: an OR that, like AND, becomes false on a false child.
evalOR_falseOnFalse(s, node, childNode) ==
    IF childTruth(s, childNode) = truthTrue
    THEN Decision(truthTrue,
                  IF s.Pattern[node].nil THEN childPattern(s, childNode)
                                         ELSE s.Pattern[node],
                  FALSE)
    ELSE Decision(truthFalse, s.Pattern[node], FALSE)

\* case "OR"
evalOR(s, node, childNode) ==
    IF childTruth(s, childNode) = truthTrue
    THEN Decision(truthTrue,
                  IF s.Pattern[node].nil THEN childPattern(s, childNode)
                                         ELSE s.Pattern[node],
                  FALSE)
    ELSE Decision(truthUnknown, s.Pattern[node], FALSE)

\* Faulty variant: the loop is satisfied by one true child.
allChildrenTrue_anyChild(s, node) ==
    \E i \in 1..Len(Children(node)) :
        /\ s.eventID[Children(node)[i]] = s.eventID[node]
        /\ s.truth[Children(node)[i]] = truthTrue

\* The loop over node.Children: every child is true for the node's event.
allChildrenTrue(s, node) ==
    \A i \in 1..Len(Children(node)) :
        /\ s.eventID[Children(node)[i]] = s.eventID[node]
        /\ s.truth[Children(node)[i]] = truthTrue

\* Faulty variant: a false child does not short-circuit the AND.
evalAND_noShortCircuit(s, node, childNode) ==
    IF ~allChildrenTrue(s, node)
    THEN Decision(truthUnknown, s.Pattern[node], FALSE)
    ELSE IF ~s.Pattern[node].nil
    THEN Decision(truthTrue, s.Pattern[node], FALSE)
    ELSE IF Children(node) = <<>>
    THEN Decision(truthUnknown, s.Pattern[node], TRUE)
    ELSE Decision(truthTrue, s.Pattern[Children(node)[1]], FALSE)

\* Faulty variant: the AND adopts the pattern of the child that completed it.
evalAND_adoptsTrigger(s, node, childNode) ==
    IF childTruth(s, childNode) = truthFalse
    THEN Decision(truthFalse, s.Pattern[node], FALSE)
    ELSE IF ~allChildrenTrue(s, node)
    THEN Decision(truthUnknown, s.Pattern[node], FALSE)
    ELSE IF ~s.Pattern[node].nil
    THEN Decision(truthTrue, s.Pattern[node], FALSE)
    ELSE IF Children(node) = <<>>
    THEN Decision(truthUnknown, s.Pattern[node], TRUE)
    ELSE Decision(truthTrue, childPattern(s, childNode), FALSE)

\* case "AND".  node.Children[0] of an empty Children list is an index out
\* of range, which panics.
evalAND(s, node, childNode) ==
    IF childTruth(s, childNode) = truthFalse
    THEN Decision(truthFalse, s.Pattern[node], FALSE)
    ELSE IF ~allChildrenTrue(s, node)
    THEN Decision(truthUnknown, s.Pattern[node], FALSE)
    ELSE IF ~s.Pattern[node].nil
    THEN Decision(truthTrue, s.Pattern[node], FALSE)
    ELSE IF Children(node) = <<>>
    THEN Decision(truthUnknown, s.Pattern[node], TRUE)
    ELSE Decision(truthTrue, s.Pattern[Children(node)[1]], FALSE)

\* Faulty variant: the two branches of the NOT case are exchanged.
evalNOT_exchanged(s, node, childNode) ==
    IF childTruth(s, childNode) = truthTrue
    THEN Decision(truthTrue, s.Pattern[node], FALSE)
    ELSE Decision(truthFalse, s.Pattern[node], FALSE)

\* Faulty variant: a false child leaves the NOT unknown.
evalNOT_ignoresFalse(s, node, childNode) ==
    IF childTruth(s, childNode) = truthTrue
    THEN Decision(truthFalse, s.Pattern[node], FALSE)
    ELSE Decision(truthUnknown, s.Pattern[node], FALSE)

\* case "NOT"
evalNOT(s, node, childNode) ==
    IF childTruth(s, childNode) = truthTrue
    THEN Decision(truthFalse, s.Pattern[node], FALSE)
    ELSE Decision(truthTrue, s.Pattern[node], FALSE)

\* "this is a leaf node"
evalLeaf(s, node, childNode) ==
    Decision(childTruth(s, childNode), s.Pattern[node], FALSE)

\* The switch on node.Operator; an unrecognised operator only logs a warning.
evalOperator(s, node, childNode) ==
    IF Operator(node) = "" THEN evalLeaf(s, node, childNode)
    ELSE IF Operator(node) = "OR" THEN evalOR(s, node, childNode)
    ELSE IF Operator(node) = "AND" THEN evalAND(s, node, childNode)
    ELSE IF Operator(node) = "NOT" THEN evalNOT(s, node, childNode)
    ELSE Decision(truthUnknown, s.Pattern[node], FALSE)

\* Faulty variant: the "src"/"dest" prefix is kept instead of removed.
indicatorType_firstPart(parts) == parts[1]

\* The Type written into the indicator: the part after the "src"/"dest"
\* prefix of a two-part pattern type, else the only part.
indicatorType(parts) ==
    IF Len(parts) > 1 THEN parts[2] ELSE parts[1]

\* Faulty variant: the pattern is copied even into an Indicator that is to
\* keep its original values.
fillIndicator_ignoresOriginal(s, node) ==
    IF ~s.Pattern[node].nil
    THEN [s.Indicator[node] EXCEPT
              !.Type = indicatorType(Split(s.Pattern[node].Type, ".")),
              !.Value = s.Pattern[node].Value]
    ELSE s.Indicator[node]

\* Faulty variant: the truth the node resolved to is not looked at.
returnsIndicator_anyTruth(s, node) ==
    ~s.Indicator[node].nil

\* "If true, see if any Indicators to return": does the node append one?
returnsIndicator(s, node) ==
    s.truth[node] = truthTrue /\ ~s.Indicator[node].nil

\* The node's Indicator after the values of its Pattern were copied into it.
fillIndicator(s, node) ==
    IF ~s.Pattern[node].nil /\ ~UseOriginalIndicatorValue(node)
    THEN [s.Indicator[node] EXCEPT
              !.Type = indicatorType(Split(s.Pattern[node].Type, ".")),
              !.Value = s.Pattern[node].Value]
    ELSE s.Indicator[node]

\* Faulty variant: only the first parent is checked.
parentsToCheck_firstOnly(node) ==
    IF Parents(node) = <<>> THEN <<>> ELSE <<Parents(node)[1]>>

\* for _, parent := range node.Parents
parentsToCheck(node) == Parents(node)

\* One invocation of setTruth as the history records it.
Touch(node, childNode, evID, before, seen, setNodeTo) ==
    [node |-> node, childNode |-> childNode, evID |-> evID,
     oldTruth |-> before.truth[node], oldEventID |-> before.eventID[node],
     seenTruth |-> seen.truth[node], seenEventID |-> seen.eventID[node],
     setNodeTo |-> setNodeTo]

\* What setTruth returns, with the node state it leaves behind.
Result(s, inds, nots, tr) ==
    [s |-> s, indicators |-> inds, discoveredNots |-> nots, touches |-> tr]

RECURSIVE setTruth(_, _, _, _)
RECURSIVE checkParents(_, _, _, _)

\* "Check any parents to see if they are now satisfied": parent i and the
\* ones after it, appending what each returns.
checkParents(r, node, i, evID) ==
    IF i > Len(parentsToCheck(node)) \/ r.s.panicked
    THEN r
    ELSE LET sub == setTruth(r.s, parentsToCheck(node)[i], node, evID)
         IN  checkParents(Result(sub.s,
                                 r.indicators \o sub.indicators,
                                 r.discoveredNots \o sub.discoveredNots,
                                 r.touches \o sub.touches),
                          node, i + 1, evID)

setTruth(s, node, childNode, evID) ==
    IF childTruth(s, childNode) = truthUnknown
    THEN Result(s, <<>>, <<>>,
                <<Touch(node, childNode, evID, s, s, truthUnknown)>>)
    ELSE
    LET s1 == resetNode(s, node, evID)
        d  == IF truthKnown(s1, node)
              THEN Decision(truthUnknown, s1.Pattern[node], FALSE)
              ELSE evalOperator(s1, node, childNode)
        s2 == [s1 EXCEPT !.Pattern[node] = d.Pattern, !.panicked = d.panicked]
        me == <<Touch(node, childNode, evID, s, s1, d.setNodeTo)>>
    IN  IF d.panicked \/ d.setNodeTo = truthUnknown
        THEN Result(s2, <<>>, collectSiblingNots(s, node), me)
        ELSE
        LET s3 == [s2 EXCEPT !.truth[node] = d.setNodeTo]
            s4 == IF returnsIndicator(s3, node)
                  THEN [s3 EXCEPT !.Indicator[node] = fillIndicator(s3, node)]
                  ELSE s3
            inds == IF returnsIndicator(s3, node) THEN <<node>> ELSE <<>>
        IN  checkParents(Result(s4, inds, collectSiblingNots(s, node), me),
                         node, 1, evID)

\* ----------------------------------------------------------------- driver

EventIDs == 1..MaxEvents

\* The driver fires the leaf whose pattern matched the event, while it is
\* still matching the event's properties.
mayFire(node) ==
    /\ Operator(node) = ""
    /\ phase = "match"

\* After the matches of the event, the driver resolves a NOT node it has
\* discovered and whose child did not become true during the event.
mayResolveNot(node) ==
    /\ Operator(node) = "NOT"
    /\ node \in discovered
    /\ node \notin resolvedNots
    /\ \A i \in 1..Len(Children(node)) :
           ~(eventID[Children(node)[i]] = ev /\ truth[Children(node)[i]] = truthTrue)

\* Number of times node occurs in the sequence seq.
Count(seq, node) == Cardinality({i \in 1..Len(seq) : seq[i] = node})

Range(seq) == {seq[i] : i \in 1..Len(seq)}

\* The effect of a call that returned r on the node state and the history.
Returned(r, op, node) ==
    /\ truth' = r.s.truth
    /\ eventID' = r.s.eventID
    /\ Pattern' = r.s.Pattern
    /\ Indicator' = r.s.Indicator
    /\ panicked' = r.s.panicked
    /\ indicators' = r.indicators
    /\ discoveredNots' = r.discoveredNots
    /\ touches' = r.touches
    /\ emitted' = [m \in Nodes |-> emitted[m] + Count(r.indicators, m)]
    /\ discovered' = discovered \cup Range(r.discoveredNots)
    /\ lastCall' = [op |-> op, node |-> node, evID |-> ev]
    /\ calls' = calls + 1

Init ==
    /\ graph \in WithChildren
    /\ truth = [m \in Nodes |-> truthUnknown]
    /\ eventID = [m \in Nodes |-> 0]
    /\ Pattern = [m \in Nodes |-> Definitions[graph][m].Pattern]
    /\ Indicator = [m \in Nodes |-> Definitions[graph][m].Indicator]
    /\ panicked = FALSE
    /\ ev = 1
    /\ phase = "match"
    /\ calls = 0
    /\ fired = {}
    /\ resolvedNots = {}
    /\ discovered = {}
    /\ emitted = [m \in Nodes |-> 0]
    /\ lastCall = [op |-> "none", node |-> "", evID |-> 0]
    /\ indicators = <<>>
    /\ discoveredNots = <<>>
    /\ touches = <<>>

\* node.Fire(evID)
Fire(node) ==
    /\ ~panicked
    /\ calls < MaxCalls
    /\ mayFire(node)
    /\ Returned(setTruth(State, node, trueNode, ev), "Fire", node)
    /\ fired' = fired \cup {node}
    /\ UNCHANGED <<graph, ev, phase, resolvedNots>>

\* node.ResolveNot(evID)
ResolveNot(node) ==
    /\ ~panicked
    /\ calls < MaxCalls
    /\ mayResolveNot(node)
    /\ Returned(setTruth(State, node, falseNode, ev), "ResolveNot", node)
    /\ resolvedNots' = resolvedNots \cup {node}
    /\ phase' = "resolve"
    /\ UNCHANGED <<graph, ev, fired>>

\* The driver turns to the next event; the nodes keep what they hold.
NextEvent ==
    /\ ~panicked
    /\ ev < MaxEvents
    /\ calls > 0
    /\ ev' = ev + 1
    /\ phase' = "match"
    /\ fired' = {}
    /\ resolvedNots' = {}
    /\ discovered' = {}
    /\ emitted' = [m \in Nodes |-> 0]
    /\ UNCHANGED <<graph, truth, eventID, Pattern, Indicator, panicked, calls,
                   lastCall, indicators, discoveredNots, touches>>

Next ==
    \/ \E node \in Nodes : Fire(node)
    \/ \E node \in Nodes : ResolveNot(node)
    \/ NextEvent

Spec == Init /\ [][Next]_vars

\* ------------------------------------- calls on any node of the package

\* Fire and ResolveNot are exported methods: a caller may invoke them on any
\* node of any definitions it has built, those with schema anomalies included.
InitDirect ==
    /\ graph \in {"odd", "childless"}
    /\ truth = [m \in Nodes |-> truthUnknown]
    /\ eventID = [m \in Nodes |-> 0]
    /\ Pattern = [m \in Nodes |-> Definitions[graph][m].Pattern]
    /\ Indicator = [m \in Nodes |-> Definitions[graph][m].Indicator]
    /\ panicked = FALSE
    /\ ev = 1
    /\ phase = "match"
    /\ calls = 0
    /\ fired = {}
    /\ resolvedNots = {}
    /\ discovered = {}
    /\ emitted = [m \in Nodes |-> 0]
    /\ lastCall = [op |-> "none", node |-> "", evID |-> 0]
    /\ indicators = <<>>
    /\ discoveredNots = <<>>
    /\ touches = <<>>

\* node.Fire(evID) on any node
FireAny(node) ==
    /\ ~panicked
    /\ calls < MaxCalls
    /\ Returned(setTruth(State, node, trueNode, ev), "Fire", node)
    /\ fired' = fired \cup {node}
    /\ UNCHANGED <<graph, ev, phase, resolvedNots>>

\* node.ResolveNot(evID) on any node
ResolveNotAny(node) ==
    /\ ~panicked
    /\ calls < MaxCalls
    /\ Returned(setTruth(State, node, falseNode, ev), "ResolveNot", node)
    /\ resolvedNots' = resolvedNots \cup {node}
    /\ UNCHANGED <<graph, ev, phase, fired>>

NextDirect ==
    \/ \E node \in Nodes : FireAny(node)
    \/ \E node \in Nodes : ResolveNotAny(node)
    \/ NextEvent

SpecDirect == InitDirect /\ [][NextDirect]_vars

\* ------------------------------------------- one event run to its fixpoint

\* The negations the driver still has to resolve for the event.
pending == {node \in Nodes : mayResolveNot(node)}

\* node.Fire(evID), once for each leaf the event matches
FireOnce(node) ==
    /\ ~panicked
    /\ mayFire(node)
    /\ node \notin fired
    /\ Returned(setTruth(State, node, trueNode, ev), "Fire", node)
    /\ fired' = fired \cup {node}
    /\ UNCHANGED <<graph, ev, phase, resolvedNots>>

\* node.ResolveNot(evID) on a negation that is pending
ResolvePending(node) ==
    /\ ~panicked
    /\ node \in pending
    /\ Returned(setTruth(State, node, falseNode, ev), "ResolveNot", node)
    /\ resolvedNots' = resolvedNots \cup {node}
    /\ phase' = "resolve"
    /\ UNCHANGED <<graph, ev, fired>>

NextRound ==
    \/ \E node \in Nodes : FireOnce(node)
    \/ \E node \in Nodes : ResolvePending(node)

\* The driver's loop is synchronous: while a negation is pending it goes on
\* to resolve one.
\* The driver's part of a ResolvePending step: it takes a pending negation
\* and marks it resolved.
takesPending ==
    \E node \in pending :
        /\ ~panicked
        /\ phase' = "resolve"
        /\ resolvedNots' = resolvedNots \cup {node}

SpecRounds ==
    Init /\ [][NextRound]_vars /\ WF_resolvedNots(takesPending)

\* ------------------------------------------- two events on the same nodes

\* The event whose calls are interleaved with those of event ev.
otherEvent == ev + 1

\* The effect on the node state of a call for the other event that
\* returned r.
ReturnedToOther(r, node) ==
    /\ truth' = r.s.truth
    /\ eventID' = r.s.eventID
    /\ Pattern' = r.s.Pattern
    /\ Indicator' = r.s.Indicator
    /\ panicked' = r.s.panicked
    /\ indicators' = r.indicators
    /\ discoveredNots' = r.discoveredNots
    /\ touches' = r.touches
    /\ lastCall' = [op |-> "Fire", node |-> node, evID |-> otherEvent]
    /\ calls' = calls + 1

\* node.Fire(otherEvent): a call that the processing of another event makes
\* on a leaf of the same graph while event ev is still in progress.  It
\* works on the same node fields; the driver of ev sees none of its results.
FireOther(node) ==
    /\ ~panicked
    /\ calls < MaxCalls
    /\ Operator(node) = ""
    /\ ReturnedToOther(setTruth(State, node, trueNode, otherEvent), node)
    /\ UNCHANGED <<graph, ev, phase, fired, resolvedNots, discovered, emitted>>

NextInterleaved ==
    \/ \E node \in Nodes : Fire(node)
    \/ \E node \in Nodes : ResolveNot(node)
    \/ \E node \in Nodes : FireOther(node)

SpecInterleaved == Init /\ [][NextInterleaved]_vars

\* ------------------------------------------------------------ properties

\* The node's truth is valid for the event in progress and is true / false.
resolvedTrue(node) == eventID[node] = ev /\ truth[node] = truthTrue

resolvedFalse(node) == eventID[node] = ev /\ truth[node] = truthFalse

ChildSet(node) == Range(Children(node))

\* The touches of node made by the last call.
TouchesOf(node) == {i \in 1..Len(touches) : touches[i].node = node}

\* C1: an AND node is true for the event in progress exactly when every one
\* of its children is true for it, and it is false for the event whenever
\* one of its children is false for it, whatever the other children are.
C1_AndResolution ==
    \A a \in Nodes :
        Operator(a) = "AND" =>
            /\ resolvedTrue(a) <=> \A ch \in ChildSet(a) : resolvedTrue(ch)
            /\ (\E ch \in ChildSet(a) : resolvedFalse(ch)) => resolvedFalse(a)

\* An inner AND is true with both children true while the root AND is false
\* because its NOT child is false although its OR child is true.
C1_Witness ==
    /\ graph = "tor"
    /\ resolvedTrue("and1") /\ resolvedTrue("src") /\ resolvedTrue("A")
    /\ resolvedTrue("or") /\ resolvedFalse("not") /\ resolvedFalse("root")

\* C2: an OR node is true for the event in progress exactly when one of its
\* children is true for it, and its truth is never false.
C2_OrResolution ==
    \A o \in Nodes :
        Operator(o) = "OR" =>
            /\ resolvedTrue(o) <=> \E ch \in ChildSet(o) : resolvedTrue(ch)
            /\ truth[o] # truthFalse

\* One OR is true through a single true child while another OR, touched
\* with the false truth of its NOT child, is still unknown.
C2_Witness ==
    /\ graph = "shared"
    /\ resolvedTrue("p2") /\ resolvedTrue("c") /\ ~resolvedTrue("s")
    /\ resolvedFalse("n")
    /\ eventID["p1"] = ev /\ truth["p1"] = truthUnknown

\* The single child of a NOT node.
NotChild(node) == Children(node)[1]

\* C3 as stated: a NOT node is true for the event exactly when its child
\* was resolved false for it (by ResolveNot on the NOT node, or by the child
\* itself becoming false), and it is false for the event exactly when its
\* child is true for it.
C3_NotAsStated ==
    \A n \in Nodes :
        Operator(n) = "NOT" =>
            /\ resolvedTrue(n) <=> (n \in resolvedNots \/ resolvedFalse(NotChild(n)))
            /\ resolvedFalse(n) <=> resolvedTrue(NotChild(n))

\* C3, amended: a NOT node is true for the event exactly when ResolveNot was
\* called on it for the event or its child is false for it, and it is false
\* for the event exactly when its child is true for it and ResolveNot was
\* not called on it: a NOT that ResolveNot made true stays true when its
\* child becomes true later in the event.
C3_NotFirstSignal ==
    \A n \in Nodes :
        Operator(n) = "NOT" =>
            /\ resolvedTrue(n) <=> (n \in resolvedNots \/ resolvedFalse(NotChild(n)))
            /\ resolvedFalse(n) <=> (resolvedTrue(NotChild(n)) /\ n \notin resolvedNots)

\* The outer NOT was made true by ResolveNot and its child, the inner AND,
\* became true afterwards; the inner NOT is true by ResolveNot as well.
C3_Witness ==
    /\ graph = "nested"
    /\ "outer" \in resolvedNots /\ resolvedTrue("outer")
    /\ resolvedTrue("and1") /\ resolvedTrue("inner")

\* C4: a call for the event in progress leaves alone the truth and the
\* event ID of every node that is already true or false for that event.
C4_MonotonicResolution ==
    [][\A m \in Nodes :
           (ev' = ev /\ eventID[m] = ev /\ truth[m] # truthUnknown)
               => (truth'[m] = truth[m] /\ eventID'[m] = eventID[m])]_vars

\* The last call touched a node that was already true or false for the
\* event, once as a NOT that ResolveNot had made true and whose child then
\* became true.
C4_Witness ==
    /\ graph = "nested"
    /\ lastCall.evID = ev
    /\ \E i \in TouchesOf("outer") :
           /\ touches[i].oldEventID = ev
           /\ touches[i].oldTruth = truthTrue
           /\ touches[i].childNode = "and1"
    /\ resolvedTrue("and1") /\ resolvedTrue("outer")

\* C5: a touch that finds the node holding the state of another event sees
\* the node unknown and stamped with the event of the call when the operator
\* logic starts; and an AND that is true for the event in progress has no
\* child whose truth belongs to another event.
C5_PerEventIsolation ==
    /\ \A i \in 1..Len(touches) :
           touches[i].oldEventID # touches[i].evID =>
               /\ touches[i].seenTruth = truthUnknown
               /\ touches[i].seenEventID = touches[i].evID
    /\ \A a \in Nodes :
           (Operator(a) = "AND" /\ resolvedTrue(a)) =>
               \A ch \in ChildSet(a) : eventID[ch] = ev

\* In the second event the inner AND, true for the first event, was touched
\* by its src child alone: it was seen unknown and stays unknown although
\* its other child still holds the true of the first event.
C5_Witness ==
    /\ graph = "tor"
    /\ ev = 2 /\ lastCall.evID = 2
    /\ \E i \in TouchesOf("and1") :
           /\ touches[i].oldEventID = 1
           /\ touches[i].oldTruth = truthTrue
           /\ touches[i].seenTruth = truthUnknown
    /\ truth["A"] = truthTrue /\ eventID["A"] = 1
    /\ eventID["and1"] = 2 /\ truth["and1"] = truthUnknown

\* C6: no node's indicator is returned more than once over the calls made
\* for one event.
C6_AtMostOnceEmission ==
    \A m \in Nodes : emitted[m] <= 1

\* The last call reached top twice (from n directly and through p1) and
\* top's indicator has been returned once for the event.
C6_Witness ==
    /\ graph = "shared"
    /\ lastCall.evID = ev
    /\ Cardinality(TouchesOf("top")) >= 2
    /\ emitted["top"] = 1
    /\ "top" \in Range(indicators)

\* The SiblingNots of the touched nodes, in the order of the touches.
RECURSIVE SiblingNotsOf(_)
SiblingNotsOf(tr) ==
    IF tr = <<>> THEN <<>>
    ELSE SiblingNots(Head(tr).node) \o SiblingNotsOf(Tail(tr))

\* C7: the negations a call returns are the SiblingNots of every node it
\* touched, one contribution per touch; a Fire on a node that is already
\* resolved for the event returns exactly that node's SiblingNots and no
\* indicator.
C7_TouchBasedDiscovery ==
    /\ discoveredNots = SiblingNotsOf(touches)
    /\ (/\ lastCall.op = "Fire"
        /\ touches[1].oldEventID = lastCall.evID
        /\ touches[1].oldTruth # truthUnknown)
           => /\ discoveredNots = SiblingNots(lastCall.node)
              /\ indicators = <<>>

\* Leaf y, which carries an indicator and a sibling negation, was fired a
\* second time in the event: the call returned the negation again and no
\* indicator, the indicator having been returned once.
C7_Witness ==
    /\ graph = "nested"
    /\ lastCall = [op |-> "Fire", node |-> "y", evID |-> ev]
    /\ touches[1].oldEventID = ev /\ touches[1].oldTruth = truthTrue
    /\ discoveredNots = <<"outer">>
    /\ indicators = <<>>
    /\ emitted["y"] = 1

\* C8: in the TOR exit node tree, once the src.ipv4 leaf and ref A have
\* fired for the event, ref C has not, and ResolveNot was called on the NOT,
\* the first inner AND, the OR, the NOT and the root are true for the event
\* and the root's indicator has been returned exactly once, with Type
\* "ipv4" and the matched address as Value.
C8_TorPositive ==
    (/\ graph = "tor"
     /\ {"src", "A"} \subseteq fired
     /\ "C" \notin fired
     /\ "not" \in resolvedNots)
        => /\ resolvedTrue("and1") /\ resolvedTrue("or")
           /\ resolvedTrue("not") /\ resolvedTrue("root")
           /\ emitted["root"] = 1
           /\ Indicator["root"].Type = <<"ipv4">>
           /\ Indicator["root"].Value = TorIP

\* The scenario has run: the root was made true by the ResolveNot call,
\* which returned its indicator, with the pattern of the src.ipv4 leaf.
C8_Witness ==
    /\ graph = "tor"
    /\ fired = {"src", "A"}
    /\ resolvedNots = {"not"}
    /\ lastCall = [op |-> "ResolveNot", node |-> "not", evID |-> ev]
    /\ indicators = <<"root">>
    /\ Pattern["root"] = Pat(<<"src", ".", "ipv4">>, TorIP)

\* C9: in the TOR exit node tree, once ref C has fired for the event, the
\* NOT and the root are false for the event and the root's indicator has
\* not been returned for it.
C9_TorNegative ==
    (graph = "tor" /\ "C" \in fired)
        => /\ resolvedFalse("not")
           /\ resolvedFalse("root")
           /\ emitted["root"] = 0

\* ref C fired last, after the OR branch had become true and had left the
\* root unknown: the call made the NOT and then the root false.
C9_Witness ==
    /\ graph = "tor"
    /\ lastCall = [op |-> "Fire", node |-> "C", evID |-> ev]
    /\ resolvedTrue("or")
    /\ \E i \in TouchesOf("root") :
           /\ touches[i].oldEventID = ev
           /\ touches[i].oldTruth = truthUnknown
           /\ touches[i].setNodeTo = truthFalse
    /\ resolvedFalse("root")

\* The last call returned node's indicator.
Returns(node) == node \in Range(indicators)

\* C10: a Fire that makes a leaf with several parents true touches every
\* one of its parents with the leaf as the true child, in the same call:
\* each OR parent is true afterwards, the SiblingNots of each parent are
\* among the returned negations, and each parent that the call made true
\* and that carries an Indicator is among the returned indicators.
C10_SharedLeaf ==
    (/\ lastCall.op = "Fire"
     /\ Len(Parents(lastCall.node)) >= 2
     /\ touches[1].seenTruth = truthUnknown)
        => /\ truth[lastCall.node] = truthTrue
           /\ eventID[lastCall.node] = lastCall.evID
           /\ \A q \in Range(Parents(lastCall.node)) :
                  /\ \E i \in TouchesOf(q) :
                         /\ touches[i].childNode = lastCall.node
                         /\ touches[i].seenEventID = lastCall.evID
                         /\ (touches[i].setNodeTo = truthTrue
                             /\ ~Definitions[graph][q].Indicator.nil) => Returns(q)
                  /\ Operator(q) = "OR" =>
                         truth[q] = truthTrue /\ eventID[q] = lastCall.evID
                  /\ Range(SiblingNots(q)) \subseteq Range(discoveredNots)

\* Leaf s was fired once: the call made s, p1 and p2 true, returned the
\* three indicators and the sibling negation of both parents, and reached
\* top through both parents.
C10_Witness ==
    /\ graph = "shared"
    /\ lastCall = [op |-> "Fire", node |-> "s", evID |-> ev]
    /\ indicators = <<"s", "p1", "p2">>
    /\ discoveredNots = <<"n", "n">>
    /\ Cardinality(TouchesOf("top")) = 2
    /\ resolvedTrue("p1") /\ resolvedTrue("p2")

\* C11 as stated: apart from truth and eventID every node keeps the field
\* values it had after construction; of the fields the code assigns these
\* are the Pattern and the Indicator.
C11_FrameAsStated ==
    \A m \in Nodes :
        /\ Pattern[m] = Definitions[graph][m].Pattern
        /\ Indicator[m] = Definitions[graph][m].Indicator

\* C11, amended: a leaf keeps its Pattern, every node keeps the presence
\* and the Id of its Indicator, and a node that reports its original values
\* keeps its whole Indicator; the Pattern of an operator node and the Type
\* and Value of an Indicator are written by the calls.
C11_FrameOfLeavesAndTemplates ==
    \A m \in Nodes :
        /\ Operator(m) = "" => Pattern[m] = Definitions[graph][m].Pattern
        /\ Indicator[m].nil = Definitions[graph][m].Indicator.nil
        /\ Indicator[m].Id = Definitions[graph][m].Indicator.Id
        /\ UseOriginalIndicatorValue(m) =>
               Indicator[m] = Definitions[graph][m].Indicator

\* The OR p1 has adopted the Pattern of leaf s and its Indicator now holds
\* the matched address instead of the template's value.
C11_Witness ==
    /\ graph = "shared"
    /\ Pattern["p1"] = Pattern["s"] /\ Definitions[graph]["p1"].Pattern.nil
    /\ Indicator["p1"].Value = "10.0.0.1"
    /\ Definitions[graph]["p1"].Indicator.Value = "0.0.0.0"

\* C12: every indicator a call returns belongs to a node whose Indicator
\* then holds: the values it held before the call when the node has no
\* Pattern; the template's own values when the node reports its original
\* values; otherwise the Value of the node's Pattern and, as Type, the
\* pattern type itself when it has one part and its second part when it has
\* two.
C12_ValueSubstitution ==
    [][calls' = calls + 1 =>
           \A m \in Range(indicators') :
               IF Pattern'[m].nil
               THEN Indicator'[m] = Indicator[m]
               ELSE IF UseOriginalIndicatorValue(m)
               THEN Indicator'[m] = Definitions[graph][m].Indicator
               ELSE /\ Indicator'[m].Value = Pattern'[m].Value
                    /\ Len(Pattern'[m].Type) = 1 =>
                           Indicator'[m].Type = Pattern'[m].Type
                    /\ (Len(Pattern'[m].Type) = 3 /\ Pattern'[m].Type[2] = ".") =>
                           Indicator'[m].Type = <<Pattern'[m].Type[3]>>]_vars

\* In the second event the OR p1 was made true by its NOT child, which has
\* no Pattern: the call returned p1's indicator with the address that the
\* first event had copied into it from leaf s (type "src.ipv4").  p2, made
\* true by leaf c, was returned with its template values.
C12_Witness ==
    /\ graph = "shared"
    /\ ev = 2 /\ lastCall = [op |-> "ResolveNot", node |-> "n", evID |-> 2]
    /\ Returns("p1") /\ Pattern["p1"].nil
    /\ Indicator["p1"].Type = <<"ipv4">> /\ Indicator["p1"].Value = "10.0.0.1"
    /\ emitted["p2"] = 1 /\ Pattern["p2"] = Pat(<<"port">>, "443")
    /\ Indicator["p2"] = Definitions[graph]["p2"].Indicator
    /\ Returns("top") /\ Pattern["top"].nil

\* The operator strings the switch of setTruth knows.
KnownOperators == {"OR", "AND", "NOT"}

\* Every touch of a node whose operator is none of OR, AND, NOT (the default
\* case of the switch) set no truth, returned no indicator of the node and
\* was followed by no touch of one of its parents, the node staying unknown.
unrecognisedLeftUnknown ==
    \A i \in 1..Len(touches) :
        (Operator(touches[i].node) # "" /\ Operator(touches[i].node) \notin KnownOperators)
            => /\ touches[i].setNodeTo = truthUnknown
               /\ truth[touches[i].node] = truthUnknown
               /\ ~Returns(touches[i].node)
               /\ i < Len(touches) => touches[i + 1].childNode # touches[i].node

\* C13: no call on any node panics, and a node with an unrecognised operator
\* is left unknown by a touch, which emits nothing and touches no parent.
C13_NoFatalPath ==
    /\ ~panicked
    /\ unrecognisedLeftUnknown

\* Every negation discovered for the event is true or false for it and
\* none is left for the driver to resolve.
Settled ==
    /\ pending = {}
    /\ \A node \in discovered : eventID[node] = ev /\ truth[node] # truthUnknown

madeTrue(touch) ==
    touch.seenTruth = truthUnknown /\ touch.setNodeTo = truthTrue

\* The touches of the last call in which node went from unknown to true.
becameTrue(node) ==
    {i \in TouchesOf(node) : madeTrue(touches[i])}

\* C15: every indicator a call returns belongs to a node that the call made
\* true for the event, once for each touch that made it true; a touch that
\* resolves the node false, leaves it unknown or finds it resolved adds none.
C15_EmittedOnlyOnTrue ==
    \A node \in Nodes :
        /\ Count(indicators, node) <= Cardinality(becameTrue(node))
        /\ Count(indicators, node) > 0 =>
               /\ truth[node] = truthTrue
               /\ eventID[node] = lastCall.evID

\* A call returned an indicator although it also touched a node with a
\* template which it did not make true.
C15_Witness ==
    /\ indicators # <<>>
    /\ \E i \in 1..Len(touches) :
           /\ ~Indicator[touches[i].node].nil
           /\ touches[i].setNodeTo # truthTrue
           /\ Count(indicators, touches[i].node) = 0

\* The touch found the node resolved for the event or left it unknown.
stops(touch) ==
    touch.seenTruth # truthUnknown \/ touch.setNodeTo = truthUnknown

\* The truth of node m for event evID in node state (t, e): a truth that was
\* recorded for another event is no truth for evID.
truthFor(t, e, m, evID) == IF e[m] = evID THEN t[m] ELSE truthUnknown

\* C16: a touch that finds its node resolved for the event or leaves it
\* unknown is followed by no touch of a parent of the node, a node that
\* only such touches reached has the truth for the event that it had before
\* the call, and a call whose first touch is such a touch consists of that
\* touch: it returns the node's own SiblingNots and no indicator.
C16_PropagationStops ==
    [][calls' = calls + 1 =>
           /\ \A i \in 1..Len(touches') :
                  (stops(touches'[i]) /\ i < Len(touches'))
                      => touches'[i + 1].childNode # touches'[i].node
           /\ \A m \in Nodes :
                  (\A i \in 1..Len(touches') :
                       touches'[i].node = m => stops(touches'[i]))
                      => truthFor(truth', eventID', m, lastCall'.evID)
                             = truthFor(truth, eventID, m, lastCall'.evID)
           /\ stops(touches'[1]) =>
                  /\ Len(touches') = 1
                  /\ indicators' = <<>>
                  /\ discoveredNots' = SiblingNots(lastCall'.node)]_vars

\* Firing leaf d made the NOT n and the AND top false; the OR p1 then
\* received the false n and stayed unknown, and top, its parent, was not
\* touched again.  In the event before, p1 had been true.
C16_Witness ==
    /\ graph = "shared"
    /\ ev = 2
    /\ lastCall = [op |-> "Fire", node |-> "d", evID |-> 2]
    /\ Len(touches) = 4
    /\ touches[4].node = "p1" /\ touches[4].childNode = "n"
    /\ touches[4].oldTruth = truthTrue
    /\ touches[4].setNodeTo = truthUnknown
    /\ truth["p1"] = truthUnknown
    /\ Cardinality(TouchesOf("top")) = 1

C18_InterleavingUnsafe ==
    [][(calls' = calls + 1 /\ lastCall'.evID = ev) =>
           \A m \in Nodes :
               (eventID[m] = ev /\ truth[m] # truthUnknown)
                   => /\ truth'[m] = truth[m] /\ eventID'[m] = ev
                      /\ emitted'[m] = emitted[m]]_vars

\* Leaf s was fired for ev, then for the other event, then the negation n
\* was resolved for ev: the indicator of the OR p1 was returned twice for
\* ev, and the AND top, whose children n, p1 and p2 were all made true for
\* ev, is not true for it, p2 being held by the other event.
C18_Witness ==
    /\ graph = "shared"
    /\ fired = {"s"} /\ resolvedNots = {"n"}
    /\ lastCall = [op |-> "ResolveNot", node |-> "n", evID |-> ev]
    /\ emitted["p1"] = 2
    /\ emitted["p2"] = 1 /\ eventID["p2"] = otherEvent
    /\ truthFor(truth, eventID, "top", ev) = truthUnknown

\* The node fields as the constructor of the graph leaves them.
Constructed ==
    [truth     |-> [m \in Nodes |-> truthUnknown],
     eventID   |-> [m \in Nodes |-> 0],
     Pattern   |-> [m \in Nodes |-> Definitions[graph][m].Pattern],
     Indicator |-> [m \in Nodes |-> Definitions[graph][m].Indicator],
     panicked  |-> FALSE]

\* Fire(evID) on each leaf of the set, one after the other in one fixed
\* order, from node state r.s: the node state at the end and the indicators
\* returned on the way.
RECURSIVE FireEach(_, _, _)
FireEach(r, leaves, evID) ==
    IF leaves = {} THEN r
    ELSE LET node == CHOOSE m \in leaves : TRUE
             sub  == setTruth(r.s, node, trueNode, evID)
         IN  FireEach(Result(sub.s, r.indicators \o sub.indicators, <<>>, <<>>),
                      leaves \ {node}, evID)

\* C19: while only leaves have been fired for the event, whatever the order
\* of the Fire calls (and whatever earlier events left in the nodes), every
\* node has the truth for the event, and the nodes that have returned an
\* indicator are the ones, that firing the same leaves in one fixed order
\* on a newly constructed graph gives.
C19_OrderIndependence ==
    resolvedNots = {} =>
        LET fixed == FireEach(Result(Constructed, <<>>, <<>>, <<>>), fired, ev)
        IN  /\ \A m \in Nodes :
                   truthFor(truth, eventID, m, ev)
                       = truthFor(fixed.s.truth, fixed.s.eventID, m, ev)
            /\ {m \in Nodes : emitted[m] > 0} = Range(fixed.indicators)

\* In the shared definitions leaf d was fired before leaf s: the OR p1
\* first received the false negation n and stayed unknown, then became
\* true; top had been made false by n before its other children were true.
C19_Witness ==
    /\ graph = "shared"
    /\ fired = {"d", "s", "c"}
    /\ resolvedNots = {}
    /\ lastCall = [op |-> "Fire", node |-> "s", evID |-> ev]
    /\ resolvedTrue("p1") /\ resolvedTrue("p2") /\ resolvedFalse("top")
    /\ emitted["p1"] = 1 /\ emitted["top"] = 0

\* C20: an operator node that was touched for the event in progress and
\* holds a Pattern is true for the event and has a child that is true for
\* the event and holds that Pattern; so the Pattern behind an indicator the
\* last call returned for an operator node comes from such a child.
C20_NoStalePattern ==
    \A m \in Nodes :
        (Operator(m) # "" /\ eventID[m] = ev /\ ~Pattern[m].nil)
            => /\ truth[m] = truthTrue
               /\ \E c \in ChildSet(m) :
                      resolvedTrue(c) /\ Pattern[c] = Pattern[m]

\* In the TOR exit node tree the OR was true in the first event through the
\* first inner AND, with the Pattern of the src.ipv4 leaf; in the second
\* event it is true through the second inner AND and holds the Pattern of
\* the dest.ipv4 leaf, the first inner AND still holding the old state.
C20_Witness ==
    /\ graph = "tor"
    /\ ev = 2
    /\ eventID["and1"] = 1 /\ truth["and1"] = truthTrue
    /\ Pattern["and1"] = Pattern["src"]
    /\ resolvedTrue("and2") /\ resolvedTrue("or")
    /\ Pattern["or"] = Pattern["dst"]

====
